---- MODULE Spec2Model ----
(***************************************************************************)
(* Model of src/server/index.js: the Blogger sync service.                 *)
(*                                                                         *)
(* State: the ledger file DB_FILE, the blog (the Publisher's posts), and   *)
(* for every request handler of POST /sync the locals of its               *)
(* syncAndCreatePosts call.  A step of a handler runs from one await to    *)
(* the next (JavaScript runs a handler to completion between awaits).      *)
(***************************************************************************)
EXTENDS Integers, Sequences, FiniteSets, TLC

(***************************************************************************)
(* Bounds of the model.                                                    *)
(***************************************************************************)
\* Longest feed (number of stream elements) in the serialized specifications.
MaxFeed == 3
\* The Publisher stops accepting posts for an identity once the blog holds this
\* many posts of it.
MaxPosts == 2
\* The POST /sync handlers that can be in flight together.
Procs == {1, 2}
\* Longest text of a feed field given to escapeHtml.
MaxStr == 3

(***************************************************************************)
(* JavaScript values of feed fields: undefined, a string or a number.      *)
(***************************************************************************)
Undefined == [t |-> "undefined", s |-> "", n |-> 0]

Str(x) == [t |-> "string", s |-> x, n |-> 0]

Num(k) == [t |-> "number", s |-> "", n |-> k]

\* ToBoolean: '' , 0 and undefined are falsy.
Truthy(v) ==
  CASE v.t = "string" -> v.s # ""
    [] v.t = "number" -> v.n # 0
    [] OTHER -> FALSE

\* a || b
Or(a, b) == IF Truthy(a) THEN a ELSE b

\* String(v)
String(v) ==
  CASE v.t = "string" -> v.s
    [] v.t = "number" -> ToString(v.n)
    [] OTHER -> "undefined"

(***************************************************************************)
(* Feed documents.  A stream element is an object with the identity        *)
(* fields, or null.                                                        *)
(***************************************************************************)
Stream(id, uri, name, title, tag) ==
  [isNull |-> FALSE, id |-> id, uri_name |-> uri, name |-> name,
   title |-> title, tag |-> tag, _category |-> Undefined]

NullStream ==
  [isNull |-> TRUE, id |-> Undefined, uri_name |-> Undefined, name |-> Undefined,
   title |-> Undefined, tag |-> Undefined, _category |-> Undefined]

\* The identity without the default '' of the tag.
SidMutNoDefault(s) ==
  String(Or(Or(Or(Or(s.id, s.uri_name), s.name), s.title), s.tag))

\* const sid = String(s.id || s.uri_name || s.name || s.title || (s.tag||''))
Sid(s) ==
  String(Or(Or(Or(Or(s.id, s.uri_name), s.name), s.title), Or(s.tag, Str(""))))

\* const title = s.name || s.title || `Match ${sid}`
Title(s) == Or(Or(s.name, s.title), Str("Match " \o Sid(s)))

\* labels: [ s._category || 'match' ]
Label(s) == Or(s._category, Str("match"))

\* The body of cat.streams.forEach without the fallback of id to tag.
AttachMutNoFallback(s, cat) ==
  [s EXCEPT !._category = Or(Or(cat.category, cat.category_name), Str(""))]

\* The body of cat.streams.forEach: id falls back to tag, the category is attached.
Attach(s, cat) ==
  [s EXCEPT !.id = IF ~Truthy(s.id) /\ Truthy(s.tag) THEN s.tag ELSE s.id,
            !._category = Or(Or(cat.category, cat.category_name), Str(""))]

Group(category, category_name, isArray, strs) ==
  [category |-> category, category_name |-> category_name,
   isArray |-> isArray, streams |-> strs]

NestedDoc(groups) == [kind |-> "nested", groups |-> groups, items |-> <<>>]

FlatDoc(items) == [kind |-> "flat", groups |-> <<>>, items |-> items]

\* A parsed document that has no events.streams array and is no array: {} .
OtherDoc == [kind |-> "other", groups |-> <<>>, items |-> <<>>]

\* The JSON document null.
NullDoc == [kind |-> "null", groups |-> <<>>, items |-> <<>>]

RECURSIVE AttachAll(_, _)
AttachAll(strs, cat) ==
  IF strs = <<>> THEN <<>>
  ELSE <<Attach(Head(strs), cat)>> \o AttachAll(Tail(strs), cat)

\* The groups walked from the last to the first.
RECURSIVE FlattenGroupsMutReversed(_)
FlattenGroupsMutReversed(groups) ==
  IF groups = <<>> THEN <<>>
  ELSE FlattenGroupsMutReversed(Tail(groups))
         \o (IF Head(groups).isArray THEN AttachAll(Head(groups).streams, Head(groups))
             ELSE <<>>)

\* j.events.streams.forEach: the streams of every group whose streams is an array.
RECURSIVE FlattenGroups(_)
FlattenGroups(groups) ==
  IF groups = <<>> THEN <<>>
  ELSE (IF Head(groups).isArray THEN AttachAll(Head(groups).streams, Head(groups))
        ELSE <<>>) \o FlattenGroups(Tail(groups))

\* The collection taking a document of another shape for one record.
NormalizeMutOther(j) ==
  CASE j.kind = "nested" -> FlattenGroups(j.groups)
    [] j.kind = "flat" -> j.items
    [] OTHER -> <<[isNull |-> FALSE, id |-> Str("a"), uri_name |-> Undefined,
                   name |-> Undefined, title |-> Undefined, tag |-> Undefined,
                   _category |-> Undefined]>>

\* Lines 122-136: the streams collected from document j.
Normalize(j) ==
  CASE j.kind = "nested" -> FlattenGroups(j.groups)
    [] j.kind = "flat" -> j.items
    [] OTHER -> <<>>

\* Lines 123-127 raise a TypeError on j = null (j.events) and on a null element
\* of a category group (s.id).
NormalizeThrows(j) ==
  \/ j.kind = "null"
  \/ /\ j.kind = "nested"
     /\ \E g \in 1..Len(j.groups) :
          /\ j.groups[g].isArray
          /\ \E k \in 1..Len(j.groups[g].streams) : j.groups[g].streams[k].isNull

(***************************************************************************)
(* The ledger.                                                             *)
(***************************************************************************)
Null == "null"

NoPosts == [x \in {} |-> 0]

EmptyDB == [postedIds |-> NoPosts, refresh_token |-> Null]

MissingFile == [status |-> "missing", db |-> EmptyDB]

CorruptFile == [status |-> "corrupt", db |-> EmptyDB]

JsonFile(d) == [status |-> "json", db |-> d]

\* readDB with a fallback that holds a credential.
readDBMutKeepsToken(f) ==
  IF f.status = "json" THEN f.db ELSE [postedIds |-> NoPosts, refresh_token |-> "t1"]

\* readDB: the parsed file, or the empty ledger when reading or parsing throws.
readDB(f) == IF f.status = "json" THEN f.db ELSE EmptyDB

\* fs.writeFileSync(DB_FILE, ...) with outcome w: "ok", or it throws having left
\* the file as it was ("untouched": open failed) or truncated ("truncated").
WriteOutcomes == {"ok", "untouched", "truncated"}

writeDB(f, d, w) ==
  CASE w = "ok" -> JsonFile(d)
    [] w = "truncated" -> CorruptFile
    [] OTHER -> f

\* Names every object inherits from Object.prototype: db.postedIds[sid] is
\* truthy for them although they are no keys of the map.
ObjectPrototypeKeys == {"constructor", "__proto__", "toString", "valueOf", "hasOwnProperty"}

\* The test of line 142 without the look-up of the stored entries.
IsPostedMutNever(posted, sid) == sid \in ObjectPrototypeKeys

\* if (db.postedIds[sid]) continue;  (every stored entry is an object, truthy)
IsPosted(posted, sid) == sid \in DOMAIN posted \/ sid \in ObjectPrototypeKeys

\* The credential test of line 107 left out.
HasTokenMutAlways(d) == TRUE

\* db.refresh_token is truthy
HasToken(d) == d.refresh_token # Null /\ d.refresh_token # ""

\* The for loop of lines 139-142 from index i on: the first index whose element
\* stops the synchronous run (a null element, or a stream to publish), or
\* Len(strs) + 1 when the loop runs to its end.
RECURSIVE NextStop(_, _, _)
NextStop(strs, i, posted) ==
  IF i > Len(strs) THEN i
  ELSE IF strs[i].isNull THEN i
  ELSE IF Sid(strs[i]) = "" THEN NextStop(strs, i + 1, posted)
  ELSE IF IsPosted(posted, Sid(strs[i])) THEN NextStop(strs, i + 1, posted)
  ELSE i

(***************************************************************************)
(* Inputs.                                                                 *)
(***************************************************************************)
StreamA == Stream(Str("a"), Undefined, Undefined, Undefined, Undefined)

StreamB == Stream(Str("b"), Undefined, Undefined, Undefined, Undefined)

\* Resolves to "c" in a flat feed and to "a" in a nested one.
StreamC == Stream(Undefined, Undefined, Str("c"), Undefined, Str("a"))

StreamEmpty == Stream(Undefined, Undefined, Undefined, Undefined, Undefined)

\* A record whose identity fields are present and empty: '' and 0.
StreamBlank == Stream(Num(0), Str(""), Str(""), Undefined, Num(0))

Streams == {StreamA, StreamB, StreamC, StreamEmpty}

\* The sequences of length k, and of length up to n, over S.
RECURSIVE SeqsOfLen(_, _)
SeqsOfLen(S, k) ==
  IF k = 0 THEN {<<>>} ELSE {Append(q, x) : q \in SeqsOfLen(S, k - 1), x \in S}

SeqsUpTo(S, n) == {q : q \in UNION {SeqsOfLen(S, k) : k \in 0..n}}

LiveGroup(strs) == Group(Str("live"), Undefined, TRUE, strs)

\* Documents whose elements are all objects.
ObjectDocs(n) ==
  {j : j \in {FlatDoc(q) : q \in SeqsUpTo(Streams, n)}
               \cup {NestedDoc(<<LiveGroup(q)>>) : q \in SeqsUpTo(Streams, n - 1)}
               \cup {OtherDoc}}

\* All documents: also those with a null element, and the document null.  A
\* null element is the last one: the code never gets past it.
FeedDocs(n) ==
  {j : j \in ObjectDocs(n)
               \cup {FlatDoc(Append(q, NullStream)) : q \in SeqsUpTo(Streams, n - 1)}
               \cup {NestedDoc(<<LiveGroup(<<NullStream>>)>>), NullDoc}}

\* Nested documents of two category groups, the second named by category_name;
\* also with a first group whose streams is no array.
TwoGroupDocs ==
  {j : j \in {NestedDoc(<<Group(Str("live"), Undefined, isArr, q1),
                          Group(Undefined, Str("cup"), TRUE, q2)>>) :
                 isArr \in {TRUE, FALSE},
                 q1 \in SeqsUpTo({StreamA, StreamB, StreamEmpty}, 2),
                 q2 \in SeqsUpTo({StreamA, StreamB}, 1)}}

\* Documents with records that have no identity.
DropDocs(n) ==
  {j : j \in {FlatDoc(q) : q \in SeqsUpTo({StreamA, StreamEmpty, StreamBlank}, n)}
               \cup {NestedDoc(<<LiveGroup(q)>>) :
                       q \in SeqsUpTo({StreamA, StreamEmpty, StreamBlank}, n - 1)}}

\* A record whose id is the name of a property every object inherits.
StreamCtor == Stream(Str("constructor"), Undefined, Undefined, Undefined, Undefined)

\* Flat documents with such records.
ProtoDocs(n) == {FlatDoc(q) : q \in SeqsUpTo({StreamA, StreamB, StreamCtor}, n)}

\* The documents of the specification of feed order.
OrderDocs(n) == {j : j \in ObjectDocs(n) \cup TwoGroupDocs}

\* The documents of the concurrent specification.
ConcDocs ==
  {FlatDoc(<<StreamA>>), NestedDoc(<<LiveGroup(<<StreamC>>)>>), OtherDoc}

Tokens == {"t1", "t2"}

(***************************************************************************)
(* State.                                                                  *)
(***************************************************************************)
VARIABLES
  file,       \* DB_FILE
  blog,       \* the Publisher's blog: the number of posts created per identity;
              \* createdAt is the creation stamp of the post, named as its id
  pc,         \* where each handler's syncAndCreatePosts stands
  err,        \* the error a handler's pass threw, "" when none
  db,         \* the handler's local db
  streams,    \* its local streams
  idx,        \* the index of the stream the for loop is at
  created,    \* its local created
  calls,      \* history: the Publisher calls of the pass, <<sid, ok>> in order
  loaded,     \* history: the ledger as the pass read it
  loadedFrom, \* history: the status of the file the pass read it from
  doc,        \* history: the feed document the pass fetched
  prev,       \* history: the document and publish outcomes of the pass before,
              \* kept when the feed source serves the next pass the same document
  retry,      \* history: prev, for the pass that is served that same document
  probe       \* the input and result of a function applied on its own

passVars == <<pc, err, db, streams, idx, created, calls, loaded, loadedFrom, doc, retry>>

vars == <<file, blog, pc, err, db, streams, idx, created, calls, loaded, loadedFrom,
          doc, prev, retry, probe>>

\* No earlier pass to compare with.
NoPrev == [known |-> FALSE, doc |-> OtherDoc, ok |-> {}, failed |-> {}]

NoProbe == [fn |-> "none"]

InitService ==
  /\ file \in {MissingFile, CorruptFile}
  /\ blog = [x \in {} |-> 0]
  /\ pc = [p \in Procs |-> "idle"]
  /\ err = [p \in Procs |-> ""]
  /\ db = [p \in Procs |-> EmptyDB]
  /\ streams = [p \in Procs |-> <<>>]
  /\ idx = [p \in Procs |-> 0]
  /\ created = [p \in Procs |-> <<>>]
  /\ calls = [p \in Procs |-> <<>>]
  /\ loaded = [p \in Procs |-> EmptyDB]
  /\ loadedFrom = [p \in Procs |-> ""]
  /\ doc = [p \in Procs |-> OtherDoc]
  /\ prev = NoPrev
  /\ retry = [p \in Procs |-> NoPrev]

Init == InitService /\ probe = NoProbe

\* The number of posts of identity sid on the blog.
PostsOf(b, sid) == IF sid \in DOMAIN b THEN b[sid] ELSE 0

\* The id the Publisher gives the n-th post created for identity sid.
PostId(sid, n) == <<sid, n>>

\* The identities of a pass's calls cl that succeeded, in call order; those that
\* succeeded and those that only failed, as sets.
RECURSIVE OkSeq(_)
OkSeq(cl) ==
  IF cl = <<>> THEN <<>>
  ELSE (IF Head(cl)[2] THEN <<Head(cl)[1]>> ELSE <<>>) \o OkSeq(Tail(cl))

OkSet(cl) == {cl[k][1] : k \in {n \in 1..Len(cl) : cl[n][2]}}

FailedSet(cl) == {cl[k][1] : k \in 1..Len(cl)} \ OkSet(cl)

CalledSet(cl) == {cl[k][1] : k \in 1..Len(cl)}

(***************************************************************************)
(* syncAndCreatePosts.                                                     *)
(***************************************************************************)
\* Lines 104-117: read the ledger, check the credential, issue the fetch.
StartSync(p) ==
  /\ pc[p] = "idle"
  /\ LET d == readDB(file) IN
       /\ db' = [db EXCEPT ![p] = d]
       /\ loaded' = [loaded EXCEPT ![p] = d]
       /\ loadedFrom' = [loadedFrom EXCEPT ![p] = file.status]
       /\ IF HasToken(d)
          THEN /\ pc' = [pc EXCEPT ![p] = "fetch"]
               /\ err' = err
               /\ retry' = [retry EXCEPT ![p] = prev]
          ELSE /\ pc' = [pc EXCEPT ![p] = "threw"]
               /\ err' = [err EXCEPT ![p] = "no_token"]
               /\ retry' = retry
  /\ prev' = NoPrev
  /\ UNCHANGED <<file, blog, streams, idx, created, calls, doc, probe>>

\* The failing fetch of a pass that saves its ledger before it throws.
FetchFailMutSaves(p) ==
  /\ pc[p] = "fetch"
  /\ pc' = [pc EXCEPT ![p] = "threw"]
  /\ err' = [err EXCEPT ![p] = "fetch_failed"]
  /\ retry' = [retry EXCEPT ![p] = NoPrev]
  /\ file' = writeDB(file, db[p], "ok")
  /\ UNCHANGED <<blog, db, streams, idx, created, calls, loaded, loadedFrom,
                 doc, prev, probe>>

\* Lines 117-119: fetch rejects, the response is not ok, or its body is no JSON.
FetchFail(p) ==
  /\ pc[p] = "fetch"
  /\ pc' = [pc EXCEPT ![p] = "threw"]
  /\ err' = [err EXCEPT ![p] = "fetch_failed"]
  /\ retry' = [retry EXCEPT ![p] = NoPrev]
  /\ UNCHANGED <<file, blog, db, streams, idx, created, calls, loaded, loadedFrom,
                 doc, prev, probe>>

\* The synchronous run of the loop of lines 139-183 from index i with the locals
\* d, cr, cl: up to the next await (posts.insert), a TypeError on a null
\* element, or the end of the loop and writeDB with outcome w.
Resume(p, strs, i, d, cr, cl, w) ==
  LET j == NextStop(strs, i, d.postedIds) IN
    /\ streams' = [streams EXCEPT ![p] = strs]
    /\ db' = [db EXCEPT ![p] = d]
    /\ created' = [created EXCEPT ![p] = cr]
    /\ calls' = [calls EXCEPT ![p] = cl]
    /\ idx' = [idx EXCEPT ![p] = j]
    /\ IF j <= Len(strs)
       THEN /\ w = "ok"
            /\ file' = file
            /\ IF strs[j].isNull
               THEN /\ pc' = [pc EXCEPT ![p] = "threw"]
                    /\ err' = [err EXCEPT ![p] = "type_error"]
               ELSE /\ pc' = [pc EXCEPT ![p] = "insert"]
                    /\ err' = err
       ELSE /\ file' = writeDB(file, d, w)
            /\ IF w = "ok"
               THEN /\ pc' = [pc EXCEPT ![p] = "returned"]
                    /\ err' = err
               ELSE /\ pc' = [pc EXCEPT ![p] = "threw"]
                    /\ err' = [err EXCEPT ![p] = "write_failed"]

\* Lines 119-139: the feed arrives as document j; collect the streams and enter
\* the loop.
FetchOk(p, docs, wouts) ==
  /\ pc[p] = "fetch"
  /\ \E j \in (IF retry[p].known THEN {retry[p].doc} ELSE docs) :
       /\ doc' = [doc EXCEPT ![p] = j]
       /\ IF NormalizeThrows(j)
          THEN /\ pc' = [pc EXCEPT ![p] = "threw"]
               /\ err' = [err EXCEPT ![p] = "type_error"]
               /\ UNCHANGED <<file, db, streams, idx, created, calls>>
          ELSE \E w \in wouts : Resume(p, Normalize(j), 1, db[p], <<>>, <<>>, w)
  /\ UNCHANGED <<blog, loaded, loadedFrom, prev, retry, probe>>

\* The success path reporting the post without recording it in the ledger.
InsertOkMutNoRecord(p) ==
  /\ pc[p] = "insert"
  /\ PostsOf(blog, Sid(streams[p][idx[p]])) < MaxPosts
  /\ LET s == streams[p][idx[p]]
         sid == Sid(s)
         postId == PostId(sid, PostsOf(blog, sid) + 1)
     IN
       /\ blog' = (sid :> PostsOf(blog, sid) + 1) @@ blog
       /\ created' = [created EXCEPT ![p] =
                        Append(created[p], [sid |-> sid, postId |-> postId, title |-> Title(s)])]
       /\ calls' = [calls EXCEPT ![p] = Append(calls[p], <<sid, TRUE>>)]
       /\ pc' = [pc EXCEPT ![p] = "pause"]
  /\ UNCHANGED <<file, err, db, streams, idx, loaded, loadedFrom, doc, prev, retry, probe>>

\* Lines 160-175: posts.insert resolves with the new post's id.
InsertOk(p) ==
  /\ pc[p] = "insert"
  /\ PostsOf(blog, Sid(streams[p][idx[p]])) < MaxPosts
  /\ LET s == streams[p][idx[p]]
         sid == Sid(s)
         postId == PostId(sid, PostsOf(blog, sid) + 1)
     IN
       /\ blog' = (sid :> PostsOf(blog, sid) + 1) @@ blog
       /\ db' = [db EXCEPT ![p].postedIds =
                   (sid :> [postId |-> postId, createdAt |-> postId, title |-> Title(s)])
                     @@ db[p].postedIds]
       /\ created' = [created EXCEPT ![p] =
                        Append(created[p], [sid |-> sid, postId |-> postId, title |-> Title(s)])]
       /\ calls' = [calls EXCEPT ![p] = Append(calls[p], <<sid, TRUE>>)]
       /\ pc' = [pc EXCEPT ![p] = "pause"]
  /\ UNCHANGED <<file, err, streams, idx, loaded, loadedFrom, doc, prev, retry, probe>>

\* Line 175 resolves: on to the next stream.
PauseDone(p, wouts) ==
  /\ pc[p] = "pause"
  /\ \E w \in wouts :
       Resume(p, streams[p], idx[p] + 1, db[p], created[p], calls[p], w)
  /\ UNCHANGED <<blog, loaded, loadedFrom, doc, prev, retry, probe>>

\* The catch of lines 176-179 marking the identity as posted.
InsertFailMutMarks(p, wouts) ==
  /\ pc[p] = "insert"
  /\ \E w \in wouts :
       Resume(p, streams[p], idx[p] + 1,
              [db[p] EXCEPT !.postedIds =
                 (Sid(streams[p][idx[p]]) :>
                    [postId |-> PostId("", 0), createdAt |-> PostId("", 0), title |-> Title(streams[p][idx[p]])])
                   @@ db[p].postedIds],
              created[p],
              Append(calls[p], <<Sid(streams[p][idx[p]]), FALSE>>), w)
  /\ UNCHANGED <<blog, loaded, loadedFrom, doc, prev, retry, probe>>

\* Lines 176-179: posts.insert rejects; the error is logged, the loop goes on.
InsertFail(p, wouts) ==
  /\ pc[p] = "insert"
  /\ \E w \in wouts :
       Resume(p, streams[p], idx[p] + 1, db[p], created[p],
              Append(calls[p], <<Sid(streams[p][idx[p]]), FALSE>>), w)
  /\ UNCHANGED <<blog, loaded, loadedFrom, doc, prev, retry, probe>>

\* Lines 90-95: the handler answers (the result, or status 500) and ends.
Respond(p) ==
  /\ pc[p] \in {"returned", "threw"}
  /\ prev' \in {NoPrev} \cup
               (IF pc[p] = "returned" /\ FailedSet(calls[p]) # {}
                THEN {[known |-> TRUE, doc |-> doc[p],
                       ok |-> OkSet(calls[p]), failed |-> FailedSet(calls[p])]}
                ELSE {})
  /\ pc' = [pc EXCEPT ![p] = "idle"]
  /\ err' = [err EXCEPT ![p] = ""]
  /\ db' = [db EXCEPT ![p] = EmptyDB]
  /\ streams' = [streams EXCEPT ![p] = <<>>]
  /\ idx' = [idx EXCEPT ![p] = 0]
  /\ created' = [created EXCEPT ![p] = <<>>]
  /\ calls' = [calls EXCEPT ![p] = <<>>]
  /\ loaded' = [loaded EXCEPT ![p] = EmptyDB]
  /\ loadedFrom' = [loadedFrom EXCEPT ![p] = ""]
  /\ doc' = [doc EXCEPT ![p] = OtherDoc]
  /\ retry' = [retry EXCEPT ![p] = NoPrev]
  /\ UNCHANGED <<file, blog, probe>>

\* The credential stored in a fresh ledger.
SetTokenMutFresh(d, t) == [postedIds |-> NoPosts, refresh_token |-> t]

\* db.refresh_token = tokens.refresh_token
SetToken(d, t) == [d EXCEPT !.refresh_token = t]

\* Lines 59-78 after getToken resolved with a refresh_token: read, set, write.
\* (A throwing writeDB is caught at line 74.)
OAuthCallback(tokens, wouts) ==
  /\ \E t \in tokens, w \in wouts :
       file' = writeDB(file, SetToken(readDB(file), t), w)
  /\ UNCHANGED <<blog, prev, probe>>
  /\ UNCHANGED passVars

\* The process dies inside the writeDB of line 68 (fs.writeFileSync opens the
\* file truncating it, then writes): the file is left as it was, truncated or
\* complete, and every handler is gone with the process, which is restarted.
CrashInCallbackSave(tokens) ==
  /\ \E t \in tokens, w \in WriteOutcomes :
       file' = writeDB(file, SetToken(readDB(file), t), w)
  /\ pc' = [p \in Procs |-> "idle"]
  /\ err' = [p \in Procs |-> ""]
  /\ db' = [p \in Procs |-> EmptyDB]
  /\ streams' = [p \in Procs |-> <<>>]
  /\ idx' = [p \in Procs |-> 0]
  /\ created' = [p \in Procs |-> <<>>]
  /\ calls' = [p \in Procs |-> <<>>]
  /\ loaded' = [p \in Procs |-> EmptyDB]
  /\ loadedFrom' = [p \in Procs |-> ""]
  /\ doc' = [p \in Procs |-> OtherDoc]
  /\ retry' = [p \in Procs |-> NoPrev]
  /\ prev' = NoPrev
  /\ UNCHANGED <<blog, probe>>

serviceVars == <<file, blog, pc, err, db, streams, idx, created, calls, loaded,
                 loadedFrom, doc, prev, retry>>

(***************************************************************************)
(* The post body.  A text is a sequence of characters; a field value is a  *)
(* text, or Absent for a missing field.                                    *)
(***************************************************************************)
Absent == <<"undefined">>

\* The replacement function of line 187, without the entry for the apostrophe.
EntityMutNoApos(c) ==
  CASE c = "&" -> <<"&", "a", "m", "p", ";">>
    [] c = "<" -> <<"&", "l", "t", ";">>
    [] c = ">" -> <<"&", "g", "t", ";">>
    [] c = "\"" -> <<"&", "q", "u", "o", "t", ";">>
    [] OTHER -> <<c>>

\* c => ({ '&':'&amp;','<':'&lt;','>':'&gt;','"':'&quot;', "'":'&#39;' })[c] for
\* the characters /[&<>"']/ matches; every other character stays.
Entity(c) ==
  CASE c = "&" -> <<"&", "a", "m", "p", ";">>
    [] c = "<" -> <<"&", "l", "t", ";">>
    [] c = ">" -> <<"&", "g", "t", ";">>
    [] c = "\"" -> <<"&", "q", "u", "o", "t", ";">>
    [] c = "'" -> <<"&", "#", "3", "9", ";">>
    [] OTHER -> <<c>>

\* text.replace(/[&<>"']/g, ...)
RECURSIVE ReplaceAll(_)
ReplaceAll(text) ==
  IF text = <<>> THEN <<>> ELSE Entity(Head(text)) \o ReplaceAll(Tail(text))

\* v || '' for a field value: an absent field and the empty text are falsy.
OrEmpty(v) == IF v = Absent THEN <<>> ELSE v

\* escapeHtml(s): String(s || '') with the five characters replaced.
escapeHtml(v) == ReplaceAll(OrEmpty(v))

\* Line 146: 'TBA' without starts_at, else the locale text of the date, which
\* is "Invalid Date" unless starts_at is a number (here: digits only).
StartsAt(v) ==
  IF OrEmpty(v) = <<>> THEN <<"T", "B", "A">>
  ELSE IF \A k \in 1..Len(v) : v[k] = "1"
       THEN <<"1", "/", "1", "/", "1", "9", "7", "0">>
       ELSE <<"I", "n", "v", "a", "l", "i", "d", " ", "D", "a", "t", "e">>

\* Lines 147-154: what the value v of a feed field puts into the body between
\* the markup of the template.  The poster and embed blocks are left out when
\* the value is empty.
FieldPart(field, v) ==
  CASE field = "category" -> escapeHtml(OrEmpty(v))
    [] field = "starts_at" -> escapeHtml(StartsAt(v))
    [] field = "poster" -> IF OrEmpty(v) = <<>> THEN <<>> ELSE escapeHtml(v)
    [] field = "tag" -> escapeHtml(OrEmpty(v))
    [] OTHER -> IF OrEmpty(v) = <<>> THEN <<>> ELSE escapeHtml(OrEmpty(v))

BodyFields == {"category", "starts_at", "poster", "tag", "iframe"}

Alphabet == {"&", "<", ">", "\"", "'", ";", "a", "1"}

FieldValues(n) == {v : v \in SeqsUpTo(Alphabet, n) \cup {Absent}}

InitEscape ==
  /\ InitService
  /\ probe \in {[fn |-> "escape", field |-> f, value |-> v, done |-> FALSE, out |-> <<>>] :
                  f \in BodyFields, v \in FieldValues(MaxStr)}

\* Lines 146-154 on the one field.
RenderField ==
  /\ probe.fn = "escape"
  /\ ~probe.done
  /\ probe' = [probe EXCEPT !.done = TRUE, !.out = FieldPart(probe.field, probe.value)]
  /\ UNCHANGED serviceVars

(***************************************************************************)
(* The identity of one record, resolved on its own: the record is the only *)
(* element of a flat document, or of the only group of a nested one.       *)
(***************************************************************************)
IdRecords ==
  {Stream(i, u, n, t, g) :
     i \in {Undefined, Str("x1"), Num(7)}, u \in {Undefined, Str("u")},
     n \in {Undefined, Str(""), Str("n")}, t \in {Undefined, Str("t")},
     g \in {Undefined, Str("g"), Num(0)}}

DocOf(shape, r) ==
  IF shape = "nested" THEN NestedDoc(<<LiveGroup(<<r>>)>>) ELSE FlatDoc(<<r>>)

InitIdentity ==
  /\ InitService
  /\ probe \in {[fn |-> "sid", shape |-> sh, rec |-> r, done |-> FALSE, sid |-> ""] :
                  sh \in {"nested", "flat"}, r \in IdRecords}

\* Lines 122-140 on the document of the one record.
ResolveIdentity ==
  /\ probe.fn = "sid"
  /\ ~probe.done
  /\ probe' = [probe EXCEPT !.done = TRUE,
                            !.sid = Sid(Normalize(DocOf(probe.shape, probe.rec))[1])]
  /\ UNCHANGED serviceVars

(***************************************************************************)
(* Specifications.                                                         *)
(***************************************************************************)
\* The service as it runs: handlers interleave at their awaits, writes may fail.
Next ==
  \/ \E p \in Procs : StartSync(p)
  \/ \E p \in Procs : FetchFail(p)
  \/ \E p \in Procs : FetchOk(p, ConcDocs, WriteOutcomes)
  \/ \E p \in Procs : InsertOk(p)
  \/ \E p \in Procs : InsertFail(p, WriteOutcomes)
  \/ \E p \in Procs : PauseDone(p, WriteOutcomes)
  \/ \E p \in Procs : Respond(p)
  \/ OAuthCallback(Tokens, WriteOutcomes)

Spec == Init /\ [][Next]_vars

\* Sync passes run one after another (one handler) over feeds of objects,
\* every write succeeds.
NextSeq ==
  \/ StartSync(1)
  \/ FetchFail(1)
  \/ FetchOk(1, ObjectDocs(MaxFeed), {"ok"})
  \/ InsertOk(1)
  \/ InsertFail(1, {"ok"})
  \/ PauseDone(1, {"ok"})
  \/ Respond(1)
  \/ OAuthCallback(Tokens, {"ok"})

SpecSeq == Init /\ [][NextSeq]_vars

\* Sync passes run one after another over any feed contents, every write
\* succeeds.
NextSeqAny ==
  \/ StartSync(1)
  \/ FetchFail(1)
  \/ FetchOk(1, FeedDocs(MaxFeed), {"ok"})
  \/ InsertOk(1)
  \/ InsertFail(1, {"ok"})
  \/ PauseDone(1, {"ok"})
  \/ Respond(1)
  \/ OAuthCallback({"t1"}, {"ok"})

SpecSeqAny == Init /\ [][NextSeqAny]_vars

\* The same with the fetch, every Publisher call and every pause returning.
PassStep ==
  \/ FetchFail(1)
  \/ FetchOk(1, FeedDocs(MaxFeed), {"ok"})
  \/ InsertOk(1)
  \/ InsertFail(1, {"ok"})
  \/ PauseDone(1, {"ok"})

SpecSeqAnyFair == SpecSeqAny /\ WF_vars(PassStep)

\* Sync passes run one after another over feeds of objects; writes may fail.
NextSeqWF ==
  \/ StartSync(1)
  \/ FetchFail(1)
  \/ FetchOk(1, ObjectDocs(MaxFeed), WriteOutcomes)
  \/ InsertOk(1)
  \/ InsertFail(1, WriteOutcomes)
  \/ PauseDone(1, WriteOutcomes)
  \/ Respond(1)
  \/ OAuthCallback({"t1"}, WriteOutcomes)

SpecSeqWF == Init /\ [][NextSeqWF]_vars

\* Sync passes run one after another over feeds of objects; every write that
\* returns succeeds, and the process may die while the callback saves.
NextCrash ==
  \/ StartSync(1)
  \/ FetchFail(1)
  \/ FetchOk(1, ObjectDocs(MaxFeed), {"ok"})
  \/ InsertOk(1)
  \/ InsertFail(1, {"ok"})
  \/ PauseDone(1, {"ok"})
  \/ Respond(1)
  \/ OAuthCallback({"t1"}, {"ok"})
  \/ CrashInCallbackSave({"t1"})

SpecCrash == Init /\ [][NextCrash]_vars

\* Sync passes run one after another over feeds of objects, among them nested
\* feeds of two groups; every write succeeds.
NextOrder ==
  \/ StartSync(1)
  \/ FetchFail(1)
  \/ FetchOk(1, OrderDocs(MaxFeed), {"ok"})
  \/ InsertOk(1)
  \/ InsertFail(1, {"ok"})
  \/ PauseDone(1, {"ok"})
  \/ Respond(1)
  \/ OAuthCallback({"t1"}, {"ok"})

SpecOrder == Init /\ [][NextOrder]_vars

\* Sync passes run one after another over feeds with records that have no
\* identity; every write succeeds.
NextDrop ==
  \/ StartSync(1)
  \/ FetchFail(1)
  \/ FetchOk(1, DropDocs(MaxFeed), {"ok"})
  \/ InsertOk(1)
  \/ InsertFail(1, {"ok"})
  \/ PauseDone(1, {"ok"})
  \/ Respond(1)
  \/ OAuthCallback({"t1"}, {"ok"})

SpecDrop == Init /\ [][NextDrop]_vars

\* The rendering of every field value of FieldValues(MaxStr) in every field.
NextEscape == RenderField

SpecEscape == InitEscape /\ [][NextEscape]_vars

\* Sync passes run one after another over feeds with identities that name
\* inherited properties; every write succeeds.
NextProto ==
  \/ StartSync(1)
  \/ FetchFail(1)
  \/ FetchOk(1, ProtoDocs(MaxFeed), {"ok"})
  \/ InsertOk(1)
  \/ InsertFail(1, {"ok"})
  \/ PauseDone(1, {"ok"})
  \/ Respond(1)
  \/ OAuthCallback({"t1"}, {"ok"})

SpecProto == Init /\ [][NextProto]_vars

\* The identity resolution of every record of IdRecords in both feed shapes.
NextIdentity == ResolveIdentity

SpecIdentity == InitIdentity /\ [][NextIdentity]_vars

(***************************************************************************)
(* Properties.                                                             *)
(***************************************************************************)
Ledger == readDB(file).postedIds

InFlight(p) == pc[p] \in {"fetch", "insert", "pause"}

CreatedSids(p) == [k \in 1..Len(created[p]) |-> created[p][k].sid]

\* Stream i of pass p was dealt with: it has no identity, or its identity is in
\* the pass's ledger (or passes for it), or a call for it failed.
Handled(p, i) ==
  LET s == streams[p][i] IN
    \/ Sid(s) = ""
    \/ IsPosted(db[p].postedIds, Sid(s))
    \/ Sid(s) \in FailedSet(calls[p])

\* C1: over sync passes run one after another, with any feed contents and any
\* publish outcomes, the Publisher returns success at most once per identity.
C1_AtMostOnce == \A sid \in DOMAIN blog : blog[sid] <= 1

\* C2: a failed publish does not abort the pass: when the pass returns, every
\* stream was dealt with, created lists exactly the identities whose publish
\* succeeded, in order, the saved ledger holds these and none of those whose
\* publish only failed, and the next pass over the same document calls the
\* Publisher for every identity that failed and for none that succeeded.
C2_PartialFailureIsolation ==
  \A p \in Procs :
    pc[p] = "returned" =>
      /\ \A i \in 1..Len(streams[p]) : ~streams[p][i].isNull /\ Handled(p, i)
      /\ CreatedSids(p) = OkSeq(calls[p])
      /\ OkSet(calls[p]) \subseteq DOMAIN Ledger
      /\ FailedSet(calls[p]) \cap DOMAIN Ledger = {}
      /\ retry[p].known =>
            /\ retry[p].failed \subseteq CalledSet(calls[p])
            /\ retry[p].ok \cap CalledSet(calls[p]) = {}

\* A pass over [A, B, C] published A and C and failed on B; the next pass over
\* the same document has returned and called the Publisher for B alone.
C2_Witness ==
  \E p \in Procs :
    /\ pc[p] = "returned"
    /\ doc[p] = FlatDoc(<<StreamA, StreamB, StreamC>>)
    /\ retry[p].known /\ retry[p].ok = {"a", "c"} /\ retry[p].failed = {"b"}
    /\ CalledSet(calls[p]) = {"b"}
    /\ {"a", "c"} \subseteq DOMAIN Ledger

\* C3: an identity that is a key of the ledger a pass loaded gets no Publisher
\* call in that pass and no item of created, and its entry stays as loaded, in
\* the pass's ledger and in the ledger the pass saves.
C3_Idempotence ==
  \A p \in Procs : \A X \in DOMAIN loaded[p].postedIds :
    pc[p] # "idle" =>
      /\ X \notin CalledSet(calls[p])
      /\ \A k \in 1..Len(created[p]) : created[p][k].sid # X
      /\ X \in DOMAIN db[p].postedIds
      /\ db[p].postedIds[X] = loaded[p].postedIds[X]
      /\ pc[p] = "returned" =>
            X \in DOMAIN Ledger /\ Ledger[X] = loaded[p].postedIds[X]

\* A pass that loaded a ledger holding "a" has returned from a feed in which
\* "a" occurs twice, after a Publisher call for another identity.
C3_Witness ==
  \E p \in Procs :
    /\ pc[p] = "returned"
    /\ "a" \in DOMAIN loaded[p].postedIds
    /\ Cardinality({i \in 1..Len(streams[p]) : Sid(streams[p][i]) = "a"}) >= 2
    /\ calls[p] # <<>>

\* C4: at no time are two sync passes in flight.
C4_Serialized == Cardinality({p \in Procs : InFlight(p)}) <= 1

\* C5: a key of the persisted postedIds map stays a key, with the same entry,
\* in every later persisted state.
C5_LedgerOnlyGrows ==
  [][\A X \in DOMAIN Ledger : X \in DOMAIN Ledger' /\ Ledger'[X] = Ledger[X]]_vars

\* A pass that loaded a ledger with an entry has saved it with a further entry.
C5_Witness ==
  \E p \in Procs :
    /\ pc[p] = "returned"
    /\ loaded[p].postedIds # NoPosts
    /\ created[p] # <<>>
    /\ Cardinality(DOMAIN Ledger) >= 2

\* C6: after a pass that failed (missing credential, feed fetch, ledger write)
\* no later pass publishes an identity that was published before: whenever the
\* Publisher has just returned success, it is the identity's only post.
C6_RetrySafe ==
  \A p \in Procs : pc[p] = "pause" => blog[Sid(streams[p][idx[p]])] = 1

\* C7 as claimed: a pass that loaded an unreadable ledger does not stop at the
\* credential check.
C7_ProceedsNormally ==
  \A p \in Procs :
    loadedFrom[p] \in {"missing", "corrupt"} => ~(pc[p] = "threw" /\ err[p] = "no_token")

\* C7 as amended: loading an unreadable ledger yields the empty ledger, and a
\* pass started on it fails with the missing-credential error, having fetched
\* no feed and called the Publisher for no record.
C7_EmptyLedgerFailsFast ==
  \A p \in Procs :
    loadedFrom[p] \in {"missing", "corrupt"} =>
      /\ loaded[p] = EmptyDB
      /\ pc[p] = "threw" /\ err[p] = "no_token"
      /\ calls[p] = <<>> /\ streams[p] = <<>> /\ created[p] = <<>>

\* A pass has loaded a corrupt ledger file.
C7_Witness == \E p \in Procs : loadedFrom[p] = "corrupt" /\ pc[p] = "threw"

\* The first value of the sequence that is not empty, in string form; "" when
\* all are empty.
RECURSIVE FirstNonEmptyOf(_)
FirstNonEmptyOf(values) ==
  IF values = <<>> THEN ""
  ELSE IF Truthy(Head(values)) THEN String(Head(values))
  ELSE FirstNonEmptyOf(Tail(values))

\* The first field, in the order id, uri_name, name, title, tag, that is not
\* empty, in string form; "" when all are empty.
FirstNonEmpty(r) == FirstNonEmptyOf(<<r.id, r.uri_name, r.name, r.title, r.tag>>)

\* C8: in both feed shapes the identity of a record is the string form of its
\* first non-empty field in the order id, uri_name, name, title, tag.
C8_IdentityPrecedence ==
  (probe.fn = "sid" /\ probe.done) => probe.sid = FirstNonEmpty(probe.rec)

\* C8 as amended: in the flat shape the identity is the string form of the
\* first non-empty field in the order id, uri_name, name, title, tag; in the
\* nested shape the order is id, tag, uri_name, name, title.
C8_ShapePrecedence ==
  (probe.fn = "sid" /\ probe.done) =>
    LET r == probe.rec IN
      probe.sid = IF probe.shape = "nested"
                  THEN FirstNonEmptyOf(<<r.id, r.tag, r.uri_name, r.name, r.title>>)
                  ELSE FirstNonEmptyOf(<<r.id, r.uri_name, r.name, r.title, r.tag>>)

\* A nested record without id, with a tag and a name, resolved to its tag.
C8_Witness ==
  /\ probe.fn = "sid" /\ probe.done /\ probe.shape = "nested"
  /\ ~Truthy(probe.rec.id) /\ Truthy(probe.rec.name)
  /\ probe.rec.tag = Str("g") /\ probe.sid = "g"

\* C9: a pass on a ledger without credential fails with the missing-credential
\* error, fetches no feed and calls no Publisher, and the step that fails
\* leaves the persisted ledger and the blog as they were.
C9_MissingCredentialFastFail ==
  /\ [](\A p \in Procs :
          (pc[p] # "idle" /\ loaded[p].refresh_token = Null) =>
             /\ pc[p] = "threw" /\ err[p] = "no_token"
             /\ calls[p] = <<>> /\ created[p] = <<>> /\ streams[p] = <<>>)
  /\ [][\A p \in Procs :
          (pc[p] = "idle" /\ pc'[p] = "threw") => (file' = file /\ blog' = blog)]_vars

\* A pass has failed for the missing credential.
C9_Witness == \E p \in Procs : pc[p] = "threw" /\ err[p] = "no_token"

\* C10: a pass whose feed fetch fails has made no Publisher call and holds its
\* ledger as loaded, and neither of its two steps (the load and the failing
\* fetch) changes the persisted ledger or the blog.
C10_FetchFailureNoSideEffects ==
  /\ [](\A p \in Procs :
          err[p] = "fetch_failed" =>
             /\ pc[p] = "threw"
             /\ calls[p] = <<>> /\ created[p] = <<>> /\ streams[p] = <<>>
             /\ db[p] = loaded[p])
  /\ [][\A p \in Procs :
          (pc[p] \in {"idle", "fetch"} /\ pc'[p] \in {"fetch", "threw"}
             /\ err'[p] \in {"", "fetch_failed"} /\ pc'[p] # pc[p])
            => (file' = file /\ blog' = blog)]_vars

\* The feed fetch of a pass failed while the ledger holds an entry.
C10_Witness ==
  \E p \in Procs : err[p] = "fetch_failed" /\ loaded[p].postedIds # NoPosts

\* C11: saving the ledger is atomic with respect to a crash: a step never
\* replaces a complete ledger file by a half-written one, so a load that gave
\* a non-empty ledger never gives the empty fallback afterwards.
C11_AtomicSave ==
  [][/\ file.status = "json" => file'.status = "json"
     /\ readDB(file).postedIds # NoPosts => readDB(file').postedIds # NoPosts]_vars

\* The identities of the records of a document in feed order: the items of a
\* flat document; for a nested one the groups in order and, within a group whose
\* streams is an array, its records in order.  "" for a record without identity.
RECURSIVE GroupOrder(_)
GroupOrder(groups) ==
  IF groups = <<>> THEN <<>>
  ELSE LET g == Head(groups) IN
    (IF g.isArray
     THEN [k \in 1..Len(g.streams) |->
             LET r == g.streams[k] IN
               FirstNonEmptyOf(<<r.id, r.tag, r.uri_name, r.name, r.title>>)]
     ELSE <<>>) \o GroupOrder(Tail(groups))

FeedOrder(j) ==
  IF j.kind = "nested" THEN GroupOrder(j.groups)
  ELSE [k \in 1..Len(j.items) |->
          LET r == j.items[k] IN FirstNonEmptyOf(<<r.id, r.uri_name, r.name, r.title, r.tag>>)]

\* Sequence a is b with some elements left out.
RECURSIVE IsSubseq(_, _)
IsSubseq(a, b) ==
  IF a = <<>> THEN TRUE
  ELSE IF b = <<>> THEN FALSE
  ELSE IF Head(a) = Head(b) THEN IsSubseq(Tail(a), Tail(b))
  ELSE IsSubseq(a, Tail(b))

CallSids(cl) == [k \in 1..Len(cl) |-> cl[k][1]]

\* C12: the Publisher calls of a pass follow feed order (group order, then order
\* within the group), the call in progress is for the record after those already
\* called, created is the calls that succeeded, in call order and without
\* repetition, and a pass over [A, B, C], all new and all succeeding, returns
\* created = [A, B, C].
C12_OrderPreservation ==
  \A p \in Procs :
    /\ IsSubseq(CallSids(calls[p]) \o
                 (IF pc[p] = "insert" THEN <<Sid(streams[p][idx[p]])>> ELSE <<>>),
               FeedOrder(doc[p]))
    /\ CreatedSids(p) = OkSeq(calls[p])
    /\ IsSubseq(CreatedSids(p), FeedOrder(doc[p]))
    /\ \A k, l \in 1..Len(created[p]) : k # l => created[p][k].sid # created[p][l].sid
    /\ (/\ pc[p] = "returned"
        /\ doc[p] = FlatDoc(<<StreamA, StreamB, StreamC>>)
        /\ loaded[p].postedIds = NoPosts
        /\ FailedSet(calls[p]) = {})
         => CreatedSids(p) = <<"a", "b", "c">>

\* A pass over a nested feed of the groups [B, (no identity)] and [A] has
\* returned created = [B, A].
C12_Witness ==
  \E p \in Procs :
    /\ pc[p] = "returned"
    /\ doc[p] = NestedDoc(<<Group(Str("live"), Undefined, TRUE, <<StreamB, StreamEmpty>>),
                            Group(Undefined, Str("cup"), TRUE, <<StreamA>>)>>)
    /\ CreatedSids(p) = <<"b", "a">>

\* C13: the step in which the feed of a pass arrives as {} or [] ends the pass:
\* it returns with no Publisher call and an empty created, the blog is as it
\* was, and the ledger it has saved is the ledger the pass loaded, postedIds
\* and credential.
C13_NoOpOnEmptyFeed ==
  [][\A p \in Procs :
       (/\ pc[p] = "fetch" /\ pc'[p] # "fetch" /\ err'[p] # "fetch_failed"
        /\ doc'[p] \in {OtherDoc, FlatDoc(<<>>)})
         => /\ pc'[p] = "returned"
            /\ calls'[p] = <<>> /\ created'[p] = <<>>
            /\ blog' = blog
            /\ file' = JsonFile(loaded[p])
            /\ readDB(file').postedIds = loaded[p].postedIds
            /\ readDB(file').refresh_token = loaded[p].refresh_token]_vars

\* A pass that loaded a ledger with an entry has returned from the feed [].
C13_Witness ==
  \E p \in Procs :
    /\ pc[p] = "returned" /\ doc[p] = FlatDoc(<<>>)
    /\ loaded[p].postedIds # NoPosts
    /\ calls[p] = <<>> /\ readDB(file) = loaded[p]

\* id, uri_name, name, title and tag of the record are all empty or absent.
NoIdentity(s) ==
  ~Truthy(s.id) /\ ~Truthy(s.uri_name) /\ ~Truthy(s.name) /\ ~Truthy(s.title)
    /\ ~Truthy(s.tag)

\* The records of a document, in order.
RECURSIVE RecordsOfGroups(_)
RecordsOfGroups(groups) ==
  IF groups = <<>> THEN <<>>
  ELSE (IF Head(groups).isArray THEN Head(groups).streams ELSE <<>>)
         \o RecordsOfGroups(Tail(groups))

RecordsOf(j) == IF j.kind = "nested" THEN RecordsOfGroups(j.groups) ELSE j.items

\* C14: a record whose identity fields are all empty is dropped without error:
\* no Publisher call is in progress or was made for it, no key (the empty string
\* or the string form of an empty value) stands for it in the pass's ledger, the
\* saved ledger, the blog or created, no pass fails on it, and the pass goes on:
\* when a pass returns, every record with an identity that is not in its ledger
\* had a Publisher call.
C14_EmptyRecordDropped ==
  \A p \in Procs :
    LET recs == RecordsOf(doc[p])
        Keys == DOMAIN db[p].postedIds \cup DOMAIN Ledger \cup DOMAIN blog
                  \cup CalledSet(calls[p])
                  \cup {created[p][k].sid : k \in 1..Len(created[p])}
    IN
      /\ Keys \cap {"", "undefined", "0", "null"} = {}
      /\ Len(streams[p]) \in {0, Len(recs)}
      /\ \A i \in 1..Len(streams[p]) :
            NoIdentity(recs[i]) => ~(pc[p] \in {"insert", "pause"} /\ idx[p] = i)
      /\ Cardinality(CalledSet(calls[p])) <=
            Cardinality({i \in 1..Len(recs) : ~NoIdentity(recs[i])})
      /\ err[p] # "type_error"
      /\ pc[p] = "returned" =>
            \A i \in 1..Len(recs) :
              ~NoIdentity(recs[i]) =>
                \/ Sid(streams[p][i]) \in DOMAIN db[p].postedIds
                \/ Sid(streams[p][i]) \in CalledSet(calls[p])

\* A pass over [(no identity), ('' and 0 fields), A] has returned having
\* published A alone.
C14_Witness ==
  \E p \in Procs :
    /\ pc[p] = "returned"
    /\ doc[p] = FlatDoc(<<StreamEmpty, StreamBlank, StreamA>>)
    /\ CallSids(calls[p]) = <<"a">>
    /\ DOMAIN Ledger = {"a"}

\* C15: a pass whose feed arrived as a parsed document that is neither nested
\* nor flat has normalized it to no record without raising: it has returned,
\* with no Publisher call and an empty created.
C15_OtherShapeIsEmpty ==
  \A p \in Procs :
    (/\ pc[p] \in {"insert", "pause", "returned", "threw"}
     /\ err[p] \notin {"no_token", "fetch_failed"}
     /\ doc[p].kind \notin {"nested", "flat"})
      => /\ pc[p] = "returned"
         /\ streams[p] = <<>> /\ calls[p] = <<>> /\ created[p] = <<>>

HtmlEntities ==
  {<<"&", "a", "m", "p", ";">>, <<"&", "l", "t", ";">>, <<"&", "g", "t", ";">>,
   <<"&", "q", "u", "o", "t", ";">>, <<"&", "#", "3", "9", ";">>}

\* An entity starts at position i of the text.
EntityAt(text, i) ==
  \E e \in HtmlEntities :
    /\ i + Len(e) - 1 <= Len(text)
    /\ SubSeq(text, i, i + Len(e) - 1) = e

\* The text with its entities read back as the characters they stand for.
RECURSIVE Decode(_)
Decode(text) ==
  IF text = <<>> THEN <<>>
  ELSE IF EntityAt(text, 1)
       THEN LET e == CHOOSE x \in HtmlEntities :
                       Len(x) <= Len(text) /\ SubSeq(text, 1, Len(x)) = x
                c == CASE e[2] = "a" -> "&" [] e[2] = "l" -> "<" [] e[2] = "g" -> ">"
                       [] e[2] = "q" -> "\"" [] OTHER -> "'"
            IN <<c>> \o Decode(SubSeq(text, Len(e) + 1, Len(text)))
       ELSE <<Head(text)>> \o Decode(Tail(text))

\* C16: what a feed field puts into the body holds none of < > " ' in raw form,
\* every & in it begins an entity, and for the fields put in as they are it
\* reads back as the field's value.
C16_Escaping ==
  (probe.fn = "escape" /\ probe.done) =>
    /\ \A i \in 1..Len(probe.out) : probe.out[i] \notin {"<", ">", "\"", "'"}
    /\ \A i \in 1..Len(probe.out) : probe.out[i] = "&" => EntityAt(probe.out, i)
    /\ probe.field # "starts_at" =>
          Decode(probe.out) = (IF probe.value = Absent THEN <<>> ELSE probe.value)

\* The tag <'& has been rendered as &lt;&#39;&amp; .
C16_Witness ==
  /\ probe.fn = "escape" /\ probe.done /\ probe.field = "tag"
  /\ probe.value = <<"<", "'", "&">>
  /\ probe.out = <<"&", "l", "t", ";", "&", "#", "3", "9", ";", "&", "a", "m", "p", ";">>

\* The outcomes of the calls of cl for identity X, in call order.
RECURSIVE OutcomesOf(_, _)
OutcomesOf(cl, X) ==
  IF cl = <<>> THEN <<>>
  ELSE (IF Head(cl)[1] = X THEN <<Head(cl)[2]>> ELSE <<>>) \o OutcomesOf(Tail(cl), X)

\* C17: when a pass returns, every record with a non-empty identity that was
\* no key of the pass's ledger when the loop reached it had exactly one
\* Publisher call: an identity of the loaded ledger had none; an identity whose
\* calls all failed had one call per record of that identity; otherwise its
\* calls are failures, one per record up to the first that succeeded, and that
\* success.
C17_ExactlyOneCall ==
  \A p \in Procs :
    pc[p] = "returned" =>
      \A i \in 1..Len(streams[p]) :
        LET X == Sid(streams[p][i])
            out == OutcomesOf(calls[p], X)
            occ == Cardinality({k \in 1..Len(streams[p]) : Sid(streams[p][k]) = X})
        IN X # "" =>
             IF X \in DOMAIN loaded[p].postedIds THEN out = <<>>
             ELSE IF \A k \in 1..Len(out) : ~out[k] THEN Len(out) = occ
             ELSE /\ Len(out) <= occ
                  /\ out[Len(out)]
                  /\ \A k \in 1..(Len(out) - 1) : ~out[k]

\* C18: a pass finishes in one of two ways only: failing fast, on the missing
\* credential or the feed fetch, before any Publisher call; or returning its
\* result after the loop has dealt with every record and the ledger is saved.
C18_FinishesByFailFastOrSave ==
  \A p \in Procs :
    /\ pc[p] = "threw" =>
          /\ err[p] \in {"no_token", "fetch_failed"}
          /\ calls[p] = <<>>
    /\ pc[p] = "returned" =>
          /\ idx[p] = Len(streams[p]) + 1
          /\ OkSet(calls[p]) \subseteq DOMAIN Ledger

\* C18, the part on termination alone (under SpecSeqAnyFair): a pass that is
\* under way finishes.
C18_Terminates ==
  (pc[1] \in {"fetch", "insert", "pause"}) ~> (pc[1] \in {"returned", "threw"})

\* C19: a credential the callback has stored stays the persisted credential
\* until a callback stores another: no step of a sync pass changes it.
C19_CredentialKept ==
  [][(pc' # pc /\ readDB(file).refresh_token # Null)
       => readDB(file').refresh_token = readDB(file).refresh_token]_vars

\* Line 183: the result a pass returns.
SyncResult(p) == [createdCount |-> Len(created[p]), created |-> created[p]]

\* C20: when a pass returns its result, createdCount is the length of created,
\* the identities in created are pairwise distinct and are exactly the keys
\* the pass added to the ledger, and the persisted entry of each created item
\* carries the item's postId (the one the publisher returned) and title.
C20_ResultLedgerConsistent ==
  [][\A p \in Procs :
       (pc[p] # "returned" /\ pc'[p] = "returned") =>
         LET r == SyncResult(p)'
             cr == r.created
             L == readDB(file').postedIds
             before == DOMAIN loaded'[p].postedIds
         IN /\ r.createdCount = Len(cr)
            /\ \A i, k \in 1..Len(cr) : cr[i].sid = cr[k].sid => i = k
            /\ {cr[k].sid : k \in 1..Len(cr)} = (DOMAIN L) \ before
            /\ \A k \in 1..Len(cr) :
                 /\ cr[k].sid \in DOMAIN L
                 /\ L[cr[k].sid].postId = cr[k].postId
                 /\ L[cr[k].sid].title = cr[k].title
                 /\ \E n \in 1..PostsOf(blog', cr[k].sid) :
                      cr[k].postId = PostId(cr[k].sid, n)]_vars

\* C20 witness: a pass over a feed that repeats an identity returned two created
\* items, added to a ledger that already held an entry.
C20_Witness ==
  /\ pc[1] = "returned"
  /\ Len(created[1]) = 2
  /\ loaded[1].postedIds # NoPosts
  /\ \E i, k \in 1..Len(streams[1]) : i < k /\ Sid(streams[1][i]) = Sid(streams[1][k])
  /\ DOMAIN Ledger = DOMAIN loaded[1].postedIds \cup {created[1][1].sid, created[1][2].sid}

====
